---- MODULE Spec2Model ----
(***************************************************************************)
(* next-handler: the definition builder (nextHandler / factoryFunction)    *)
(* and the dispatch function produced by build() (buildHandler,            *)
(* callHandler, jsonResponse, parseBody, parseQuery, checkSchema) of       *)
(* src/src/index.ts.                                                       *)
(***************************************************************************)
EXTENDS Integers, Sequences, FiniteSets, TLC

(***************************************************************************)
(* Bounds of the model.                                                    *)
(***************************************************************************)
\* number of per-method registration calls made on builders (SpecBuilder)
MaxReg == 2
\* number of per-method registration calls before build() (Spec)
MaxChain == 1

(***************************************************************************)
(* JavaScript values.                                                      *)
(***************************************************************************)
Undefined == [t |-> "undefined"]
Null == [t |-> "null"]
Bool(b) == [t |-> "boolean", b |-> b]
Num(n) == [t |-> "number", n |-> n]
Str(s) == [t |-> "string", s |-> s]
\* an object: its own properties, <<key, value>> in insertion order
Obj(f) == [t |-> "object", f |-> f]
\* the promise returned by the un-awaited checkSchema call for the body
BodyPromise == [t |-> "promise"]

\* ToBoolean, as used by `data ? ... : ...`, `if (req.body)`, `if (req.query)`
Truthy(v) ==
  CASE v.t = "undefined" -> FALSE
    [] v.t = "null" -> FALSE
    [] v.t = "boolean" -> v.b
    [] v.t = "number" -> v.n # 0
    [] v.t = "string" -> v.s # ""
    [] OTHER -> TRUE

HasKey(o, k) == \E i \in DOMAIN o.f : o.f[i][1] = k
GetKey(o, k) ==
  IF HasKey(o, k) THEN o.f[CHOOSE i \in DOMAIN o.f : o.f[i][1] = k][2]
  ELSE Undefined

Quote(s) == "\"" \o s \o "\""

\* JSON.stringify of a scalar
Scalar(v) ==
  CASE v.t = "null" -> "null"
    [] v.t = "boolean" -> (IF v.b THEN "true" ELSE "false")
    [] v.t = "number" -> ToString(v.n)
    [] v.t = "string" -> Quote(v.s)

RECURSIVE Members(_)
Members(f) ==
  IF f = <<>> THEN ""
  ELSE Quote(f[1][1]) \o ":" \o Scalar(f[1][2])
       \o (IF Len(f) > 1 THEN "," ELSE "") \o Members(Tail(f))

\* JSON.stringify(data), for the values the model uses (objects of scalars)
JSONstringify(v) ==
  IF v.t = "object" THEN "{" \o Members(v.f) \o "}" ELSE Scalar(v)

(***************************************************************************)
(* Sample data: the payloads and inputs of src/test/index.test.ts and the  *)
(* falsy values.                                                           *)
(***************************************************************************)
John == Obj(<< <<"name", Str("John")>>, <<"number", Num(15)>> >>)
JohnNoNumber == Obj(<< <<"name", Str("John")>> >>)
QueryFull == Obj(<< <<"text", Str("test")>>, <<"id", Str("0")>> >>)
ErrorData == Obj(<< <<"error", Str("Teapot Error")>> >>)
NotFoundData == Obj(<< <<"error", Str("Unavailable")>> >>)

\* values a handler may return
Payloads ==
  {Undefined, Null, Bool(FALSE), Num(0), Str(""), Str("test"), John}
\* values a fallback callback may return
FallbackPayloads == {Undefined, Num(0), ErrorData, NotFoundData}

\* JSON values a request body may hold
JsonValues == {John, JohnNoNumber, Null, Num(0), Str("test")}

SyntaxError == [t |-> "SyntaxError"]
\* JSON.parse(text): the value whose serialization is text, else a throw
JSONparse(text) ==
  IF \E v \in JsonValues : JSONstringify(v) = text
  THEN CHOOSE v \in JsonValues : JSONstringify(v) = text
  ELSE SyntaxError

(***************************************************************************)
(* HTTP methods are strings of characters; toLowerCase maps them           *)
(* character by character.                                                 *)
(***************************************************************************)
GET == <<"g", "e", "t">>
POST == <<"p", "o", "s", "t">>
PUT == <<"p", "u", "t">>
PATCH == <<"p", "a", "t", "c", "h">>
DELETE == <<"d", "e", "l", "e", "t", "e">>
HttpMethod == {GET, POST, PUT, PATCH, DELETE}

LowerChar(c) ==
  CASE c = "G" -> "g" [] c = "E" -> "e" [] c = "T" -> "t"
    [] c = "P" -> "p" [] c = "O" -> "o" [] c = "S" -> "s"
    [] c = "D" -> "d" [] c = "L" -> "l" [] c = "N" -> "n"
    [] c = "C" -> "c" [] c = "R" -> "r" [] c = "U" -> "u"
    [] c = "A" -> "a" [] c = "H" -> "h" [] c = "I" -> "i"
    [] OTHER -> c

\* a variant of toLowerCase that leaves the method as the request spells it
toLowerCaseId(s) == s

\* String.prototype.toLowerCase
toLowerCase(s) == [i \in DOMAIN s |-> LowerChar(s[i])]

CONSTRUCTOR == <<"c", "o", "n", "s", "t", "r", "u", "c", "t", "o", "r">>
PROTO == <<"_", "_", "p", "r", "o", "t", "o", "_", "_">>
\* the all-lower-case property names every plain object inherits from
\* Object.prototype
InheritedKeys == {CONSTRUCTOR, PROTO}

(***************************************************************************)
(* Validation schemas (ZodSchemaLike): the two schemas of the tests.       *)
(* parseAsync settles with the coerced value or rejects.                   *)
(***************************************************************************)
NoSchema == "none"
PersonSchema == "person"
QuerySchema == "query"
SchemaChoices == [body : {NoSchema, PersonSchema}, query : {NoSchema, QuerySchema}]

\* parseInt on the digit strings of the samples
parseInt(s) == CASE s = "0" -> 0 [] s = "15" -> 15

Rejected == [ok |-> FALSE, v |-> Undefined]
Fulfilled(v) == [ok |-> TRUE, v |-> v]

\* z.object({ name: z.string(), number: z.number() })
ParsePerson(input) ==
  IF /\ input.t = "object"
     /\ GetKey(input, "name").t = "string"
     /\ GetKey(input, "number").t = "number"
  THEN Fulfilled(Obj(<< <<"name", GetKey(input, "name")>>,
                        <<"number", GetKey(input, "number")>> >>))
  ELSE Rejected

\* z.object({ text: z.string(), id: z.string().transform(parseInt) })
ParseQueryObject(input) ==
  IF /\ input.t = "object"
     /\ GetKey(input, "text").t = "string"
     /\ GetKey(input, "id").t = "string"
  THEN Fulfilled(Obj(<< <<"text", GetKey(input, "text")>>,
                        <<"id", Num(parseInt(GetKey(input, "id").s))>> >>))
  ELSE Rejected

parseAsync(schema, input) ==
  IF schema = PersonSchema THEN ParsePerson(input) ELSE ParseQueryObject(input)

\* a variant of checkSchema that passes the input through when it is invalid
checkSchemaLenient(obj, schema) ==
  IF schema # NoSchema /\ parseAsync(schema, obj).ok
  THEN parseAsync(schema, obj) ELSE Fulfilled(obj)

\* checkSchema: what the promise it returns settles with
checkSchema(obj, schema) ==
  IF schema # NoSchema THEN parseAsync(schema, obj) ELSE Fulfilled(obj)

(***************************************************************************)
(* The definition builder.                                                 *)
(***************************************************************************)
VARIABLES
  options,     \* HandlerFactoryOptions: which callbacks are configured
  tdefs,       \* the registry object (_tdef) of every builder created
  hist,        \* per builder: the registration calls of the chain it ends
  dispatcher,  \* 0, or the builder whose build() produced the dispatcher
  pc,          \* position of the invocation of the dispatch function
  req,         \* the request of the invocation
  res,         \* the response object of the invocation
  loc,         \* local variables of the invocation
  hCalls,      \* invocations of registered handlers, in order
  fbCalls,     \* invocations of fallback callbacks, in order
  writes,      \* terminal writes (res.end) on the response, in order
  other        \* a second invocation of the dispatch function, suspended

builderVars == <<options, tdefs, hist, dispatcher>>
invVars == <<pc, req, res, loc, hCalls, fbCalls, writes, other>>
vars == <<options, tdefs, hist, dispatcher, pc, req, res, loc, hCalls,
          fbCalls, writes, other>>

\* the per-method operations of a builder and the method each one registers
Ops == {"get", "post", "put", "patch", "delete"}
opMethod(op) ==
  CASE op = "get" -> GET [] op = "post" -> POST [] op = "put" -> PUT
    [] op = "patch" -> PATCH [] op = "delete" -> DELETE

EmptyDef == [m \in {} |-> Undefined]

\* a variant of Spread in which an existing entry wins:
\* { [method]: { handler, schemas }, ...tdef }
SpreadKeep(tdef, method, entry) ==
  [m \in DOMAIN tdef \cup {method} |->
     IF m \in DOMAIN tdef THEN tdef[m] ELSE entry]

\* { ...tdef, [method]: { handler, schemas } }
Spread(tdef, method, entry) ==
  [m \in DOMAIN tdef \cup {method} |-> IF m = method THEN entry ELSE tdef[m]]

\* a variant that assigns into the parent's registry object
ExtendInPlace(heap, parent, method, entry) ==
  Append([heap EXCEPT ![parent] = Spread(heap[parent], method, entry)],
         Spread(heap[parent], method, entry))

\* factoryFunction's inner function: a new builder with a new registry object
Extend(heap, parent, method, entry) ==
  Append(heap, Spread(heap[parent], method, entry))

\* builder.get/post/put/patch/delete(schemas, handler); the handler passed
\* is a fresh function, named by the number of the registration call
Register(b, op, schemas) ==
  /\ LET entry == [handler |-> Len(tdefs), schemas |-> schemas]
     IN /\ tdefs' = Extend(tdefs, b, opMethod(op), entry)
        /\ hist' = Append(hist, Append(hist[b],
                      [method |-> opMethod(op), handler |-> Len(tdefs),
                       schemas |-> schemas]))
  /\ UNCHANGED <<options, dispatcher>>
  /\ UNCHANGED invVars

\* builder.build(): the dispatch function closes over the builder's registry
Build(b) ==
  /\ dispatcher = 0
  /\ dispatcher' = b
  /\ UNCHANGED <<options, tdefs, hist>>
  /\ UNCHANGED invVars

(***************************************************************************)
(* Requests and responses.                                                 *)
(***************************************************************************)
\* request methods: upper, lower and mixed case, unregistered, empty
ReqMethods ==
  { <<"G", "E", "T">>, <<"g", "e", "t">>, <<"P", "o", "s", "t">>,
    <<"P", "U", "T">>, <<"P", "A", "T", "C", "H">>,
    <<"D", "E", "L", "E", "T", "E">>,
    <<"O", "P", "T", "I", "O", "N", "S">>,
    <<"C", "O", "N", "S", "T", "R", "U", "C", "T", "O", "R">>, <<>> }

JohnExtra ==
  Obj(<< <<"name", Str("John")>>, <<"number", Num(15)>>, <<"x", Num(0)>> >>)

\* body of the request: already parsed by the transport, or still a stream
BodyInputs ==
  { [body |-> JohnExtra, stream |-> ""],
    [body |-> Num(0), stream |-> ""],
    [body |-> Undefined, stream |-> ""],
    [body |-> Undefined, stream |-> JSONstringify(John)],
    [body |-> Undefined, stream |-> JSONstringify(JohnNoNumber)],
    [body |-> Undefined, stream |-> "{name"] }

\* query of the request: already parsed, or the query string of the url
\* as its <<name, value>> pairs
QueryInputs ==
  { [query |-> QueryFull, url |-> <<>>],
    [query |-> Undefined, url |-> << <<"text", "test">>, <<"id", "0">> >>],
    [query |-> Undefined, url |-> << <<"text", "test">> >>] }

\* status codes a handler / a fallback callback may assign to res.statusCode
\* (0 in a behaviour: it assigns none)
HandlerStatuses == {200, 201}
FallbackStatuses == {418, 500}
\* res.statusCode of the response object handed to the dispatch function
InitialStatuses == {200, 404}

NoHeaders == [x \in {} |-> ""]
NoReq ==
  [hasMethod |-> FALSE, method |-> <<>>, body |-> Undefined, stream |-> "",
   query |-> Undefined, url |-> <<>>]
\* given: the statusCode the response object had when it was handed over
NoRes ==
  [statusCode |-> 0, headers |-> NoHeaders, ended |-> FALSE, given |-> 0]
NoContainer == [kind |-> "undefined"]
NoPromise == [state |-> "none", v |-> Undefined]
NoLoc ==
  [container |-> NoContainer, parsedBody |-> Undefined,
   parsedQuery |-> Undefined, body |-> NoPromise, query |-> Undefined,
   awaited |-> [kind |-> "none", v |-> Undefined]]

\* res.setHeader(name, value)
setHeader(h, name, value) ==
  [x \in DOMAIN h \cup {name} |-> IF x = name THEN value ELSE h[x]]

\* the argument of res.end: data ? JSON.stringify(data) : ''
jsonBody(data) == IF Truthy(data) THEN JSONstringify(data) ELSE ""

\* a variant of jsonResponse that does not set the Content-Type header
jsonResponseNoType(r, status, data) ==
  LET r1 == [r EXCEPT !.statusCode = status]
  IN IF r.ended
     THEN [res |-> r1, wrote |-> <<>>, threw |-> TRUE]
     ELSE [res |-> [r1 EXCEPT !.ended = TRUE],
           wrote |-> << [status |-> status, headers |-> r.headers,
                         body |-> jsonBody(data), data |-> data,
                         by |-> "jsonResponse"] >>,
           threw |-> FALSE]

\* jsonResponse(res, status, data): the response object afterwards, the
\* write performed and whether the call threw.  res is a ServerResponse:
\* once it has been ended its headers are sent and setHeader throws.
jsonResponse(r, status, data) ==
  LET r1 == [r EXCEPT !.statusCode = status]
      h2 == setHeader(r.headers, "Content-Type", "application/json")
  IN IF r.ended
     THEN [res |-> r1, wrote |-> <<>>, threw |-> TRUE]
     ELSE [res |-> [r1 EXCEPT !.headers = h2, !.ended = TRUE],
           wrote |-> << [status |-> status, headers |-> h2,
                         body |-> jsonBody(data), data |-> data,
                         by |-> "jsonResponse"] >>,
           threw |-> FALSE]

\* a variant of the status resolution that always uses the default
resolveStatusDefault(r, defaultStatus) == defaultStatus

\* res.statusCode === 0 ? defaultStatus : res.statusCode
resolveStatus(r, defaultStatus) ==
  IF r.statusCode = 0 THEN defaultStatus ELSE r.statusCode

\* tdef[method]: an own property, else a property inherited from
\* Object.prototype, else undefined
Lookup(tdef, method) ==
  IF method \in DOMAIN tdef
  THEN [kind |-> "entry", handler |-> tdef[method].handler,
        schemas |-> tdef[method].schemas]
  ELSE IF method \in InheritedKeys THEN [kind |-> "inherited"]
  ELSE NoContainer

\* urlParse(req.url, true).query
urlParseQuery(url) == Obj([i \in DOMAIN url |-> <<url[i][1], Str(url[i][2])>>])

\* parseBody(req): what the promise it returns settles with
parseBody(r) ==
  IF Truthy(r.body) THEN Fulfilled(r.body)
  ELSE IF r.stream # ""
       THEN (IF JSONparse(r.stream) = SyntaxError THEN Rejected
             ELSE Fulfilled(JSONparse(r.stream)))
       ELSE Fulfilled(Null)

\* parseQuery(req)
parseQuery(r) == IF Truthy(r.query) THEN r.query ELSE urlParseQuery(r.url)

(***************************************************************************)
(* The dispatch function: async (req, res) => { ... } of buildHandler.     *)
(* The body and the query of the request enter the state when the          *)
(* function reads them.                                                    *)
(***************************************************************************)
\* the transport calls the dispatch function with a request and a response
Request(hasMethod, method, status) ==
  /\ dispatcher # 0
  /\ pc \in {"idle", "done", "rejected"}
  /\ req' = [NoReq EXCEPT !.hasMethod = hasMethod, !.method = method]
  /\ res' = [NoRes EXCEPT !.statusCode = status, !.given = status]
  /\ loc' = NoLoc
  /\ hCalls' = <<>>
  /\ fbCalls' = <<>>
  /\ writes' = <<>>
  /\ pc' = "start"
  /\ UNCHANGED <<builderVars, other>>

\* a variant of Reset that leaves res.statusCode as it was handed over
ResetKeep ==
  /\ pc = "start"
  /\ pc' = "lookup"
  /\ UNCHANGED <<req, res, loc, hCalls, fbCalls, writes>>
  /\ UNCHANGED <<builderVars, other>>

\* res.statusCode = 0
Reset ==
  /\ pc = "start"
  /\ res' = [res EXCEPT !.statusCode = 0]
  /\ pc' = "lookup"
  /\ UNCHANGED <<req, loc, hCalls, fbCalls, writes>>
  /\ UNCHANGED <<builderVars, other>>

\* if (req.method) { ... tdef[method] ... if (handlerContainer) ...
LookupHandler ==
  /\ pc = "lookup"
  /\ LET c == IF req.hasMethod /\ req.method # <<>>
              THEN Lookup(tdefs[dispatcher], toLowerCase(req.method))
              ELSE NoContainer
     IN /\ loc' = [loc EXCEPT !.container = c]
        /\ pc' = IF c.kind # "undefined" THEN "parseBody" ELSE "notFound"
  /\ UNCHANGED <<req, res, hCalls, fbCalls, writes>>
  /\ UNCHANGED <<builderVars, other>>

\* const parsedBody = await parseBody(req)
ParseBody(bi) ==
  /\ pc = "parseBody"
  /\ req' = [req EXCEPT !.body = bi.body, !.stream = bi.stream]
  /\ LET r == parseBody(req')
     IN /\ loc' = [loc EXCEPT !.parsedBody = r.v]
        /\ pc' = IF r.ok THEN "validate" ELSE "catch"
  /\ UNCHANGED <<res, hCalls, fbCalls, writes>>
  /\ UNCHANGED <<builderVars, other>>

\* parsedQuery = parseQuery(req); body = checkSchema(parsedBody, schemas.body)
\* (not awaited); checkSchema(parsedQuery, schemas.query) is started.
\* A container inherited from Object.prototype has no schemas: TypeError.
Validate(qi) ==
  /\ pc = "validate"
  /\ req' = [req EXCEPT !.query = qi.query, !.url = qi.url]
  /\ IF loc.container.kind = "inherited"
     THEN /\ loc' = [loc EXCEPT !.parsedQuery = parseQuery(req')]
          /\ pc' = "catch"
     ELSE /\ loc' = [loc EXCEPT
                 !.parsedQuery = parseQuery(req'),
                 !.body = IF loc.container.schemas.body = NoSchema
                          THEN [state |-> "fulfilled", v |-> loc.parsedBody]
                          ELSE [state |-> "pending", v |-> Undefined]]
          /\ pc' = "awaitQuery"
  /\ UNCHANGED <<res, hCalls, fbCalls, writes>>
  /\ UNCHANGED <<builderVars, other>>

\* the body schema's parseAsync settles the promise held in `body`
BodySettles ==
  /\ loc.body.state = "pending"
  /\ LET r == checkSchema(loc.parsedBody, loc.container.schemas.body)
     IN loc' = [loc EXCEPT !.body = [state |-> IF r.ok THEN "fulfilled"
                                                ELSE "rejected",
                                     v |-> r.v]]
  /\ UNCHANGED <<pc, req, res, hCalls, fbCalls, writes>>
  /\ UNCHANGED <<builderVars, other>>

\* a variant of QuerySettles for a schema whose promise never settles when
\* the validation fails
QuerySettlesOnlyOk ==
  /\ pc = "awaitQuery"
  /\ LET r == checkSchema(loc.parsedQuery, loc.container.schemas.query)
     IN /\ r.ok
        /\ loc' = [loc EXCEPT !.query = r.v]
        /\ pc' = "callHandler"
  /\ UNCHANGED <<req, res, hCalls, fbCalls, writes>>
  /\ UNCHANGED <<builderVars, other>>

\* const query = await checkSchema(parsedQuery, schemas.query)
QuerySettles ==
  /\ pc = "awaitQuery"
  /\ LET r == checkSchema(loc.parsedQuery, loc.container.schemas.query)
     IN /\ loc' = [loc EXCEPT !.query = r.v]
        /\ pc' = IF r.ok THEN "callHandler" ELSE "catch"
  /\ UNCHANGED <<req, res, hCalls, fbCalls, writes>>
  /\ UNCHANGED <<builderVars, other>>

\* callHandler(res, handler, { req: { ...req, body, query }, res }, 200):
\* handler(handlerArg).  The handler sets a header, may assign
\* res.statusCode, and then returns a payload, returns req.body or
\* req.query, or throws (synchronously or by a promise that rejects).
InvokeHandler(status, kind, v) ==
  /\ pc = "callHandler"
  /\ res' = [res EXCEPT
               !.statusCode = IF status = 0 THEN @ ELSE status,
               !.headers = setHeader(@, "Test-Header", "FooBar")]
  /\ hCalls' = Append(hCalls,
        [handler |-> loc.container.handler,
         schemas |-> loc.container.schemas,
         body |-> BodyPromise, bodyState |-> loc.body.state,
         query |-> loc.query,
         status |-> status, kind |-> kind, v |-> v])
  /\ loc' = [loc EXCEPT !.awaited = [kind |-> kind, v |-> v]]
  /\ pc' = "awaitHandler"
  /\ UNCHANGED <<req, fbCalls, writes>>
  /\ UNCHANGED <<builderVars, other>>

\* a variant of Respond for a response object that accepts a second write
RespondForce(v, defaultStatus, onThrow) ==
  LET j == jsonResponse([res EXCEPT !.ended = FALSE],
                        resolveStatus(res, defaultStatus), v)
  IN /\ res' = j.res
     /\ writes' = writes \o j.wrote
     /\ pc' = "done"

\* the rest of callHandler after `await Promise.resolve(promise)`:
\* status resolution and jsonResponse; a throw goes to the given position
Respond(v, defaultStatus, onThrow) ==
  LET j == jsonResponse(res, resolveStatus(res, defaultStatus), v)
  IN /\ res' = j.res
     /\ writes' = writes \o j.wrote
     /\ pc' = IF j.threw THEN onThrow ELSE "done"

\* callHandler(res, undefined, ..., defaultStatus): no callback configured
DefaultResponse(defaultStatus, onThrow) ==
  LET j == jsonResponse(res, defaultStatus, Undefined)
  IN /\ res' = j.res
     /\ writes' = writes \o j.wrote
     /\ pc' = IF j.threw THEN onThrow ELSE "done"

\* const response = await Promise.resolve(promise) in the handler's call
HandlerSettles ==
  /\ pc = "awaitHandler"
  /\ \/ /\ loc.awaited.kind = "throw"
        /\ pc' = "catch"
        /\ UNCHANGED <<res, writes>>
     \/ /\ loc.awaited.kind = "body"
        /\ loc.body.state = "rejected"
        /\ pc' = "catch"
        /\ UNCHANGED <<res, writes>>
     \/ /\ loc.awaited.kind = "body"
        /\ loc.body.state = "fulfilled"
        /\ Respond(loc.body.v, 200, "catch")
     \/ /\ loc.awaited.kind = "query"
        /\ Respond(loc.query, 200, "catch")
     \/ /\ loc.awaited.kind = "return"
        /\ Respond(loc.awaited.v, 200, "catch")
  /\ UNCHANGED <<req, loc, hCalls, fbCalls>>
  /\ UNCHANGED <<builderVars, other>>

\* callHandler invoking a configured fallback callback.  The callback may
\* assign res.statusCode and then return a payload, throw (or reject), or
\* end the response itself (res.end, a no-op on an ended response) and
\* return nothing.
InvokeFallback(name, status, kind, v, next) ==
  /\ kind = "end" => status # 0
  /\ fbCalls' = Append(fbCalls,
        [name |-> name, status |-> status, kind |-> kind, v |-> v,
         before |-> res.statusCode])
  /\ LET r == [res EXCEPT !.statusCode = IF status = 0 THEN @ ELSE status]
     IN IF kind = "end" /\ ~res.ended
        THEN /\ res' = [r EXCEPT !.ended = TRUE]
             /\ writes' = Append(writes,
                   [status |-> r.statusCode, headers |-> r.headers,
                    body |-> "", data |-> Undefined, by |-> name])
        ELSE /\ res' = r
             /\ UNCHANGED writes
  /\ loc' = [loc EXCEPT !.awaited = [kind |-> kind, v |-> v]]
  /\ pc' = next

\* await callHandler(res, options?.onNotFound, { req, res }, 404)
NotFoundDefault ==
  /\ pc = "notFound"
  /\ ~options.onNotFound
  /\ DefaultResponse(404, "catch")
  /\ UNCHANGED <<req, loc, hCalls, fbCalls>>
  /\ UNCHANGED <<builderVars, other>>

InvokeOnNotFound(status, kind, v) ==
  /\ pc = "notFound"
  /\ options.onNotFound
  /\ InvokeFallback("onNotFound", status, kind, v, "awaitNotFound")
  /\ UNCHANGED <<req, hCalls>>
  /\ UNCHANGED <<builderVars, other>>

NotFoundSettles ==
  /\ pc = "awaitNotFound"
  /\ IF loc.awaited.kind = "throw"
     THEN /\ pc' = "catch"
          /\ UNCHANGED <<res, writes>>
     ELSE Respond(loc.awaited.v, 404, "catch")
  /\ UNCHANGED <<req, loc, hCalls, fbCalls>>
  /\ UNCHANGED <<builderVars, other>>

\* catch (err) { await callHandler(res, options?.onError, {req,res,err}, 500) }
\* a throw here rejects the promise the dispatch function returned
OnErrorDefault ==
  /\ pc = "catch"
  /\ ~options.onError
  /\ DefaultResponse(500, "rejected")
  /\ UNCHANGED <<req, loc, hCalls, fbCalls>>
  /\ UNCHANGED <<builderVars, other>>

InvokeOnError(status, kind, v) ==
  /\ pc = "catch"
  /\ options.onError
  /\ InvokeFallback("onError", status, kind, v, "awaitOnError")
  /\ UNCHANGED <<req, hCalls>>
  /\ UNCHANGED <<builderVars, other>>

OnErrorSettles ==
  /\ pc = "awaitOnError"
  /\ IF loc.awaited.kind = "throw"
     THEN /\ pc' = "rejected"
          /\ UNCHANGED <<res, writes>>
     ELSE Respond(loc.awaited.v, 500, "rejected")
  /\ UNCHANGED <<req, loc, hCalls, fbCalls>>
  /\ UNCHANGED <<builderVars, other>>

\* the state of an invocation: its position, its request and response, its
\* local variables and what it has called and written
Invocation ==
  [pc |-> pc, req |-> req, res |-> res, loc |-> loc, hCalls |-> hCalls,
   fbCalls |-> fbCalls, writes |-> writes]
IdleInvocation ==
  [pc |-> "idle", req |-> NoReq, res |-> NoRes, loc |-> NoLoc,
   hCalls |-> <<>>, fbCalls |-> <<>>, writes |-> <<>>]

\* a variant of Switch in which the invocations share one status field
SwitchSharedStatus ==
  /\ dispatcher # 0
  /\ other' = Invocation
  /\ pc' = other.pc
  /\ req' = other.req
  /\ res' = [other.res EXCEPT !.statusCode = res.statusCode]
  /\ loc' = other.loc
  /\ hCalls' = other.hCalls
  /\ fbCalls' = other.fbCalls
  /\ writes' = other.writes
  /\ UNCHANGED builderVars

\* the running invocation is suspended at an await (or has not been called,
\* or has returned) and the event loop runs the other invocation, which the
\* transport calls with a request and a response of its own
Switch ==
  /\ dispatcher # 0
  /\ other' = Invocation
  /\ pc' = other.pc
  /\ req' = other.req
  /\ res' = other.res
  /\ loc' = other.loc
  /\ hCalls' = other.hCalls
  /\ fbCalls' = other.fbCalls
  /\ writes' = other.writes
  /\ UNCHANGED builderVars

(***************************************************************************)
(* The specifications.                                                     *)
(***************************************************************************)
\* nextHandler(options): the root builder with an empty registry
Init ==
  /\ options \in [onError : BOOLEAN, onNotFound : BOOLEAN]
  /\ tdefs = <<EmptyDef>>
  /\ hist = << <<>> >>
  /\ dispatcher = 0
  /\ pc = "idle"
  /\ req = NoReq
  /\ res = NoRes
  /\ loc = NoLoc
  /\ hCalls = <<>>
  /\ fbCalls = <<>>
  /\ writes = <<>>
  /\ other = IdleInvocation

HandlerKinds == {"return", "throw", "body", "query"}
FallbackKinds == {"return", "throw", "end"}

\* the steps of an invocation of the dispatch function, over given sets of
\* request inputs (methods ms, initial statuses ss, bodies bs, queries qs),
\* of handler behaviours (statuses hs, kinds hk, payloads hp) and of
\* callback behaviours (statuses fs, kinds fk, payloads fp)
Dispatch(ms, ss, bs, qs, hs, hk, hp, fs, fk, fp) ==
  \/ \E hasMethod \in BOOLEAN, m \in ms, st \in ss :
        /\ ~hasMethod => m = <<>>
        /\ Request(hasMethod, m, st)
  \/ Reset
  \/ LookupHandler
  \/ \E bi \in bs : ParseBody(bi)
  \/ \E qi \in qs : Validate(qi)
  \/ BodySettles
  \/ QuerySettles
  \/ \E st \in {0} \cup hs, kind \in hk, v \in hp \cup {Undefined} :
        /\ kind = "return" => v \in hp
        /\ kind # "return" => v = Undefined
        /\ InvokeHandler(st, kind, v)
  \/ HandlerSettles
  \/ NotFoundDefault
  \/ \E st \in {0} \cup fs, kind \in fk, v \in fp \cup {Undefined} :
        /\ kind = "return" => v \in fp
        /\ kind # "return" => v = Undefined
        /\ InvokeOnNotFound(st, kind, v)
  \/ NotFoundSettles
  \/ OnErrorDefault
  \/ \E st \in {0} \cup fs, kind \in fk, v \in fp \cup {Undefined} :
        /\ kind = "return" => v \in fp
        /\ kind # "return" => v = Undefined
        /\ InvokeOnError(st, kind, v)
  \/ OnErrorSettles

\* Spec: a chain of post registrations, build(), then requests with every
\* input and every handler and callback behaviour
Next ==
  \/ \E sc \in SchemaChoices :
        /\ dispatcher = 0
        /\ Len(tdefs) <= MaxChain
        /\ Register(Len(tdefs), "post", sc)
  \/ Build(Len(tdefs))
  \/ Dispatch(ReqMethods, InitialStatuses, BodyInputs, QueryInputs,
              HandlerStatuses,
              HandlerKinds, Payloads, FallbackStatuses, FallbackKinds,
              FallbackPayloads)

Spec == Init /\ [][Next]_vars

\* SpecLive: a chain of post registrations, build(), then requests with
\* every kind of body, query, handler and callback behaviour, where every
\* step an invocation awaits settles and the event loop then resumes the
\* invocation: while an invocation is running its next step is eventually
\* taken
LiveMethods == { <<"P", "o", "s", "t">>, <<"G", "E", "T">>, <<>> }
LiveBodies ==
  { [body |-> Undefined, stream |-> ""],
    [body |-> Undefined, stream |-> JSONstringify(John)],
    [body |-> Undefined, stream |-> "{name"] }
LiveQueries ==
  { [query |-> QueryFull, url |-> <<>>],
    [query |-> Undefined, url |-> << <<"text", "test">> >>] }

NextLive ==
  \/ \E sc \in SchemaChoices :
        /\ dispatcher = 0
        /\ Len(tdefs) <= MaxChain
        /\ Register(Len(tdefs), "post", sc)
  \/ Build(Len(tdefs))
  \/ Dispatch(LiveMethods, {200}, LiveBodies, LiveQueries, {201},
              HandlerKinds, {Str("test")}, {418}, FallbackKinds,
              {ErrorData})

Running == pc \notin {"idle", "done", "rejected"}
SpecLive == Init /\ [][NextLive]_vars /\ WF_vars(Running /\ NextLive)

\* SpecBuilder: registrations of every method on every builder, before and
\* after build(), then requests to handlers that return "test" or throw
\* the schemas passed by the k-th registration call: none, a body and a
\* query schema, none, ...
BuilderSchemas(k) ==
  IF k % 2 = 1 THEN [body |-> NoSchema, query |-> NoSchema]
  ELSE [body |-> PersonSchema, query |-> QuerySchema]
BuilderMethods ==
  { <<"G", "E", "T">>, <<"g", "e", "t">>, <<"G", "e", "t">>,
    <<"P", "o", "s", "t">>, <<"D", "E", "L", "E", "T", "E">>, <<>> }

NextBuilder ==
  \/ \E b \in DOMAIN tdefs, op \in Ops :
        /\ Len(tdefs) <= MaxReg
        /\ pc = "idle"
        /\ Register(b, op, BuilderSchemas(Len(tdefs)))
  \/ \E b \in DOMAIN tdefs : Build(b)
  \/ Dispatch(BuilderMethods, {200}, {[body |-> JohnExtra, stream |-> ""]},
              {[query |-> QueryFull, url |-> <<>>]}, {},
              {"return", "throw"}, {Str("test")}, {418}, {"return"},
              {ErrorData})

SpecBuilder == Init /\ [][NextBuilder]_vars

\* SpecConc: one post registration with a body and a query schema, build(),
\* then two invocations of the dispatch function whose steps interleave at
\* every suspension point
ConcSchemas == [body |-> PersonSchema, query |-> QuerySchema]
ConcMethods == { <<"P", "o", "s", "t">>, <<"G", "E", "T">> }
ConcBodies ==
  { [body |-> Undefined, stream |-> JSONstringify(John)],
    [body |-> Undefined, stream |-> JSONstringify(JohnNoNumber)] }
ConcQueries ==
  { [query |-> QueryFull, url |-> <<>>],
    [query |-> Undefined, url |-> << <<"text", "test">> >>] }

NextConc ==
  \/ /\ dispatcher = 0
     /\ Len(tdefs) <= MaxChain
     /\ Register(Len(tdefs), "post", ConcSchemas)
  \/ Build(Len(tdefs))
  \/ Dispatch(ConcMethods, {200}, ConcBodies, ConcQueries, {201},
              {"return", "body", "throw"}, {Str("test")}, {418},
              {"return", "throw"}, {ErrorData})
  \/ Switch

SpecConc == Init /\ [][NextConc]_vars

(***************************************************************************)
(* Properties.                                                             *)
(***************************************************************************)
Finished == pc \in {"done", "rejected"}
JsonWrite(w) ==
  /\ w.by = "jsonResponse"
  /\ "Content-Type" \in DOMAIN w.headers
  /\ w.headers["Content-Type"] = "application/json"
\* the fallback callbacks invoked so far all returned a payload
FallbacksReturned == \A i \in DOMAIN fbCalls : fbCalls[i].kind = "return"
\* the invocation of the callback `name` returned v having assigned status
\* st (0: none), and the response is the one callHandler writes for it
FallbackResponse(name, defaultStatus) ==
  /\ Len(fbCalls) >= 1
  /\ fbCalls[Len(fbCalls)].name = name
  /\ fbCalls[Len(fbCalls)].kind = "return"
  /\ Len(writes) = 1
  /\ writes[1].status = IF fbCalls[Len(fbCalls)].status # 0
                        THEN fbCalls[Len(fbCalls)].status ELSE defaultStatus
  /\ writes[1].data = fbCalls[Len(fbCalls)].v
\* the response written when no callback is configured
EmptyResponse(defaultStatus) ==
  /\ Len(writes) = 1
  /\ writes[1].status = defaultStatus
  /\ writes[1].body = ""

BodyFails ==
  /\ loc.body.state # "none"
  /\ loc.container.schemas.body # NoSchema
  /\ ~parseAsync(loc.container.schemas.body, loc.parsedBody).ok

\* the response of the error path: what a handler throw produces
ErrorPathResponse ==
  IF options.onError THEN FallbackResponse("onError", 500)
  ELSE EmptyResponse(500)

\* C2: when the body fails body-schema validation the handler is never
\* invoked and the response is the one of a handler throw (500 and empty
\* without onError, else onError's payload and status).
C2_BodyFailAborts ==
  BodyFails => (hCalls = <<>> /\ (pc = "done" => ErrorPathResponse))

\* the matched handler was invoked and threw
HandlerThrew == hCalls # <<>> /\ hCalls[1].kind = "throw"

\* C3: when the matched handler throws, the response is 500 and empty
\* without onError, and with onError it carries onError's payload and the
\* status onError set, or 500 if it set none, also when the handler changed
\* the response's status or headers before throwing.
C3_HandlerThrow ==
  (HandlerThrew /\ pc = "done") => ErrorPathResponse

\* the request's method has no registered handler
Unregistered ==
  /\ pc \notin {"idle", "start", "lookup"}
  /\ ~(req.hasMethod /\ toLowerCase(req.method) \in DOMAIN tdefs[dispatcher])

\* C4: a request whose method has no registered handler gets 404 and an
\* empty body without onNotFound, and with onNotFound the payload it
\* returned and the status it set, or 404; no handler is invoked.
C4_NotFound ==
  Unregistered =>
    /\ hCalls = <<>>
    /\ (pc = "done" /\ ~options.onNotFound) => EmptyResponse(404)
    /\ (pc = "done" /\ options.onNotFound /\ Len(fbCalls) = 1) =>
          FallbackResponse("onNotFound", 404)

\* the handler was invoked and the value it returned was awaited successfully
SuccessPath ==
  /\ pc = "done"
  /\ hCalls # <<>>
  /\ hCalls[1].kind # "throw"
  /\ ~(hCalls[1].kind = "body" /\ loc.body.state = "rejected")

\* C5: on the success path the final status is the one the handler
\* assigned (also when it equals the default), and 200 if it assigned none.
C5_HandlerStatus ==
  SuccessPath =>
    /\ Len(writes) = 1
    /\ writes[1].status = IF hCalls[1].status # 0 THEN hCalls[1].status
                          ELSE 200

C5_Witness ==
  /\ SuccessPath
  /\ hCalls[1].status = 201
  /\ writes[1].status = 201

\* C6: the handler receives as req.body and req.query the validated and
\* coerced values (the raw parsed values where no schema is registered),
\* both validations having completed before it is invoked.
C6_ValidatedInputs ==
  \A i \in DOMAIN hCalls :
    /\ hCalls[i].bodyState # "pending"
    /\ hCalls[i].body = checkSchema(loc.parsedBody, hCalls[i].schemas.body).v
    /\ hCalls[i].query =
         checkSchema(loc.parsedQuery, hCalls[i].schemas.query).v

\* the query schema rejects the parsed query of the request
QueryFails ==
  /\ loc.body.state # "none"
  /\ loc.container.schemas.query # NoSchema
  /\ ~parseAsync(loc.container.schemas.query, loc.parsedQuery).ok

\* C7: when the query fails query-schema validation the handler is never
\* invoked and the response is the one of a handler throw (500 and empty
\* without onError, else onError's payload and status).
C7_QueryFailAborts ==
  QueryFails => (hCalls = <<>> /\ (pc = "done" => ErrorPathResponse))

C7_Witness ==
  /\ QueryFails
  /\ pc = "done"
  /\ options.onError
  /\ writes[1].status = 418
  /\ writes[1].data = ErrorData

\* the registrations for method m in a chain h of registration calls
RegisteredIn(h, m) == \E i \in DOMAIN h : h[i].method = m
LastReg(h, m) ==
  h[CHOOSE i \in DOMAIN h :
      /\ h[i].method = m
      /\ \A j \in DOMAIN h : h[j].method = m => j <= i]

\* C8: a request whose method has a registration in the chain the
\* dispatcher was built from selects the handler and the schemas of the last
\* registration for that method, and only that handler is invoked;
\* registering a method twice raises no error.
C8_LastRegistrationWins ==
  ( /\ pc \notin {"idle", "start", "lookup"}
    /\ req.hasMethod
    /\ RegisteredIn(hist[dispatcher], toLowerCase(req.method)) )
  => LET last == LastReg(hist[dispatcher], toLowerCase(req.method))
     IN /\ loc.container.kind = "entry"
        /\ loc.container.handler = last.handler
        /\ loc.container.schemas = last.schemas
        /\ Len(hCalls) <= 1
        /\ \A i \in DOMAIN hCalls :
              /\ hCalls[i].handler = last.handler
              /\ hCalls[i].schemas = last.schemas

C8_Witness ==
  /\ pc = "done"
  /\ Len(hCalls) = 1
  /\ Len(hist[dispatcher]) = 2
  /\ hist[dispatcher][1].method = hist[dispatcher][2].method
  /\ hist[dispatcher][1].schemas # hist[dispatcher][2].schemas
  /\ hCalls[1].handler = hist[dispatcher][2].handler
  /\ writes[1].status = 200

\* the registry a chain of registration calls describes
Snapshot(h) ==
  [m \in {h[i].method : i \in DOMAIN h} |->
     [handler |-> LastReg(h, m).handler, schemas |-> LastReg(h, m).schemas]]

\* C9: the registry of every builder is the one its own chain of
\* registrations describes, whatever was registered later on it or on a
\* sibling, and the dispatcher answers exactly the methods of the chain of
\* the builder it was built from.
C9_BuildersKeepTheirRegistry ==
  /\ \A b \in DOMAIN tdefs : tdefs[b] = Snapshot(hist[b])
  /\ pc \notin {"idle", "start", "lookup"} =>
       (loc.container.kind = "entry" <=>
          (req.hasMethod /\ RegisteredIn(hist[dispatcher],
                                         toLowerCase(req.method))))

C9_Witness ==
  /\ Len(tdefs) = 3
  /\ Len(hist[2]) = 1
  /\ Len(hist[3]) = 1
  /\ hist[2][1].method # hist[3][1].method
  /\ dispatcher = 1
  /\ pc = "done"
  /\ req.hasMethod
  /\ toLowerCase(req.method) = hist[3][1].method
  /\ writes[1].status = 404

\* C10: the body written is the JSON serialization of the payload, falsy
\* payloads (0, false, "", null) included, and is empty only when the
\* payload is undefined.
C10_BodyIsSerialization ==
  \A i \in DOMAIN writes :
    writes[i].by = "jsonResponse" =>
      /\ writes[i].data # Undefined =>
           writes[i].body = JSONstringify(writes[i].data)
      /\ writes[i].body = "" => writes[i].data = Undefined

\* C11: when a configured fallback callback (onNotFound or onError) throws,
\* the exception leaves the dispatch function: the invocation rejects,
\* writes nothing afterwards and invokes no further fallback callback.
C11_FallbackThrowPropagates ==
  \A i \in DOMAIN fbCalls :
    fbCalls[i].kind = "throw" =>
      /\ i = Len(fbCalls)
      /\ pc \in {"awaitNotFound", "awaitOnError", "rejected"}

CasePairs ==
  { <<"G", "g">>, <<"E", "e">>, <<"T", "t">>, <<"P", "p">>, <<"O", "o">>,
    <<"S", "s">>, <<"D", "d">>, <<"L", "l">>, <<"U", "u">>, <<"A", "a">>,
    <<"C", "c">>, <<"H", "h">> }
IgnoreCaseEq(s, m) ==
  /\ Len(s) = Len(m)
  /\ \A i \in DOMAIN s : s[i] = m[i] \/ <<s[i], m[i]>> \in CasePairs

\* C13: a request that spells a registered method m in any letter case is
\* dispatched to the handler registered for m (only that handler is
\* invoked, the not-found callback is not); a request that carries no
\* method takes the not-found path and invokes no handler.
C13_CaseNormalizedLookup ==
  pc \notin {"idle", "start", "lookup"} =>
    /\ \A m \in DOMAIN tdefs[dispatcher] :
          (req.hasMethod /\ IgnoreCaseEq(req.method, m)) =>
            /\ loc.container.kind = "entry"
            /\ loc.container.handler = tdefs[dispatcher][m].handler
            /\ \A i \in DOMAIN hCalls :
                  hCalls[i].handler = tdefs[dispatcher][m].handler
            /\ pc # "notFound"
            /\ \A i \in DOMAIN fbCalls : fbCalls[i].name # "onNotFound"
    /\ ~req.hasMethod =>
          /\ loc.container.kind = "undefined"
          /\ hCalls = <<>>
          /\ \/ pc = "notFound"
             \/ options.onNotFound /\ fbCalls # <<>>
                                   /\ fbCalls[1].name = "onNotFound"
             \/ ~options.onNotFound /\ pc = "done" /\ EmptyResponse(404)

C13_Witness ==
  /\ pc = "done"
  /\ req.method = <<"G", "e", "t">>
  /\ GET \in DOMAIN tdefs[dispatcher]
  /\ Len(hCalls) = 1
  /\ hCalls[1].handler = tdefs[dispatcher][GET].handler
  /\ Len(writes) = 1
  /\ writes[1].data = Str("test")

\* the invocations of the fallback callback `name` so far
CallsOf(name) == {i \in DOMAIN fbCalls : fbCalls[i].name = name}

\* C14: an invocation takes exactly one fallback path: onNotFound and
\* onError are never both invoked for the same request, each of them is
\* invoked at most once, and the matched handler is invoked at most once.
C14_OneFallbackPath ==
  /\ ~(CallsOf("onNotFound") # {} /\ CallsOf("onError") # {})
  /\ Cardinality(CallsOf("onNotFound")) <= 1
  /\ Cardinality(CallsOf("onError")) <= 1
  /\ Len(hCalls) <= 1

\* the parts of C14 that hold: at most one call of each callback and of
\* the matched handler, onNotFound before onError, and never a handler call
\* and an onNotFound call for the same request
C14_AtMostOnceEach ==
  /\ Cardinality(CallsOf("onNotFound")) <= 1
  /\ Cardinality(CallsOf("onError")) <= 1
  /\ Len(hCalls) <= 1
  /\ Len(fbCalls) = 2 =>
        (fbCalls[1].name = "onNotFound" /\ fbCalls[1].kind # "return")
  /\ ~(hCalls # <<>> /\ CallsOf("onNotFound") # {})

\* what the transport and the callbacks contribute to an invocation: the
\* request, the status the response came with, and what the handler and the
\* callbacks did in the calls both invocations made
Behaviour(c) == [status |-> c.status, kind |-> c.kind, v |-> c.v]
SameInputs(a, b) ==
  /\ a.req = b.req
  /\ a.res.given = b.res.given
  /\ \A i \in DOMAIN a.hCalls \cap DOMAIN b.hCalls :
        Behaviour(a.hCalls[i]) = Behaviour(b.hCalls[i])
  /\ \A i \in DOMAIN a.fbCalls \cap DOMAIN b.fbCalls :
        Behaviour(a.fbCalls[i]) = Behaviour(b.fbCalls[i])
\* what an invocation produced: how it ended, its writes (status, headers,
\* body), the final status, and the handler and callback calls it made
HandlerCall(c) ==
  [handler |-> c.handler, schemas |-> c.schemas, query |-> c.query,
   status |-> c.status, kind |-> c.kind, v |-> c.v]
Results(a) ==
  [pc |-> a.pc, writes |-> a.writes, statusCode |-> a.res.statusCode,
   hCalls |-> [i \in DOMAIN a.hCalls |-> HandlerCall(a.hCalls[i])],
   fbCalls |-> a.fbCalls]
\* every status an invocation writes is a path default or one its own
\* handler or callbacks assigned
OwnStatus(a) ==
  \A i \in DOMAIN a.writes :
    a.writes[i].status \in
      {200, 404, 500} \cup {a.hCalls[j].status : j \in DOMAIN a.hCalls}
        \cup {a.fbCalls[j].status : j \in DOMAIN a.fbCalls}
Isolated ==
  /\ ( /\ Finished
       /\ other.pc \in {"done", "rejected"}
       /\ SameInputs(Invocation, other) ) => Results(Invocation) = Results(other)
  /\ OwnStatus(Invocation)
  /\ OwnStatus(other)

C16_EventuallyResponds ==
  (pc = "start") ~>
     \/ Finished /\ Len(writes) = 1
     \/ \E i \in DOMAIN fbCalls : fbCalls[i].kind = "throw"

C16_Witness ==
  /\ pc = "done"
  /\ Len(writes) = 1
  /\ Len(hCalls) = 1
  /\ hCalls[1].kind = "body"
  /\ hCalls[1].bodyState = "pending"
  /\ loc.body.state = "fulfilled"
  /\ writes[1].data = loc.body.v

\* neither the handler nor a fallback callback assigned res.statusCode
NoStatusAssigned ==
  /\ \A i \in DOMAIN hCalls : hCalls[i].status = 0
  /\ \A i \in DOMAIN fbCalls : fbCalls[i].status = 0
\* the default status of the path a completed invocation took
PathDefault ==
  IF SuccessPath THEN 200
  ELSE IF loc.container.kind = "undefined"
          /\ (fbCalls = <<>> \/ fbCalls[1].kind = "return") THEN 404
  ELSE 500

\* C17: the dispatch function sets res.statusCode to 0 before anything else,
\* and the status the response object came with never reaches the result:
\* when neither the handler nor a callback assigns a status, the status
\* written is the default of the path taken (200, 404, 500).
C17_InitialStatusIgnored ==
  /\ (pc \notin {"idle", "start"} /\ hCalls = <<>> /\ fbCalls = <<>>) =>
        res.statusCode \in {0} \cup {writes[i].status : i \in DOMAIN writes}
  /\ (pc \in {"lookup", "parseBody", "validate", "awaitQuery"}) =>
        res.statusCode = 0
  /\ (pc = "done" /\ NoStatusAssigned) =>
        (Len(writes) = 1 /\ writes[1].status = PathDefault)

C17_Witness ==
  /\ pc = "done"
  /\ res.given = 404
  /\ NoStatusAssigned
  /\ Len(hCalls) = 1
  /\ Len(writes) = 1
  /\ writes[1].status = 200

\* the request's method matched an entry and parseBody has settled
BodyAcquired ==
  /\ loc.container.kind = "entry"
  /\ pc \notin {"idle", "start", "lookup", "parseBody"}

\* C18: for a matched method, a body the request already carries is used
\* as it is; otherwise a non-empty stream is parsed as JSON and an empty
\* stream gives the absent value (null) without an error, the handler still
\* being invoked when no schema rejects; a text that is not valid JSON
\* takes the error path and the handler is not invoked.
C18_BodyAcquisition ==
  BodyAcquired =>
    /\ req.body # Undefined => loc.parsedBody = req.body
    /\ (req.body = Undefined /\ req.stream = "") =>
          /\ loc.parsedBody = Null
          /\ (pc = "done" /\ loc.container.schemas.query = NoSchema) =>
                Len(hCalls) = 1
    /\ (req.body = Undefined /\ req.stream # "") =>
          IF JSONparse(req.stream) # SyntaxError
          THEN loc.parsedBody = JSONparse(req.stream)
          ELSE /\ hCalls = <<>>
               /\ loc.body.state = "none"
               /\ pc \in {"catch", "awaitOnError", "done", "rejected"}
               /\ pc = "done" => ErrorPathResponse

\* the invocation awaited the promise held in `body`: only a handler that
\* returns req.body hands it to the await in callHandler
BodyAwaited ==
  /\ hCalls # <<>>
  /\ hCalls[1].kind = "body"
  /\ pc \notin {"callHandler", "awaitHandler"}

\* C19: every body validation an invocation started has been awaited by it
\* before it writes or completes: at the terminal write and at completion
\* the promise of the body validation is neither pending nor rejected
\* without an observer.
C19_BodyValidationAwaited ==
  (Finished \/ writes # <<>>) =>
    /\ loc.body.state # "pending"
    /\ loc.body.state = "rejected" => BodyAwaited

====
